---- MODULE Spec2Model ----
(***************************************************************************)
(* Model of the option wizard of the "luraph.obfuscate" command            *)
(* (src/src/extension.ts, lines 159-448): the resolution of the option     *)
(* order idOrder, the collector loop that walks idOrder and presents a     *)
(* checkbox cluster, a dropdown or a text box per unit, the quick pick's   *)
(* event handlers, the final confirmation and the call of createNewJob.    *)
(*                                                                         *)
(* A state is the state of one run of the command handler from line 159    *)
(* on, for one nodeInfo.options.  The handler is an async function: every  *)
(* action below is one synchronous stretch of it (or one event handler of  *)
(* the quick pick), and pc names the await the run is suspended at.        *)
(***************************************************************************)
EXTENDS Integers, Sequences, FiniteSets, TLC

VARIABLES
    options,               \* nodeInfo.options: [keys, type, deps]
    pc,                    \* position of the run
    idOrder,               \* line 162
    i,                     \* loop cursor of line 222 (1-based here)
    userOptionValues,      \* line 159
    checkboxCluster,       \* line 235, ids of the cluster on display
    items,                 \* optionsPick.items (ids)
    selectedItems,         \* optionsPick.selectedItems (set of ids)
    ignoreSelectionUpdate, \* line 306
    promise,               \* the selectedValues promise of line 263
    echo,                  \* selection events the host still owes for line 331
    units,                 \* history: the presentation units shown so far
    hist,                  \* history: what the user and the handlers last did
    jobs                   \* history: the UserValues handed to createNewJob

vars == <<options, pc, idOrder, i, userOptionValues, checkboxCluster, items,
          selectedItems, ignoreSelectionUpdate, promise, echo, units, hist, jobs>>

(***************************************************************************)
(* Bounds and input universes                                              *)
(***************************************************************************)
\* most dependency pairs (option, depId) in one OptionSet
MaxDepPairs == 2

Keys3 == <<"A", "B", "C">>
Keys4 == <<"A", "B", "C", "D">>
Dangling == "Z"            \* an id that is no key of any OptionSet
AllTypes == {"CHECKBOX", "DROPDOWN", "TEXT", "SLIDER"}
Choices == <<"x", "y">>    \* the choices of every DROPDOWN option
TextInputs == {"", "s"}    \* what the user may type into an input box

\* the families of OptionSets: three options of any type, four checkboxes
Profiles == { [keys |-> Keys3, types |-> AllTypes],
              [keys |-> Keys4, types |-> {"CHECKBOX"}] }

(***************************************************************************)
(* Values of userOptionValues: JavaScript booleans, strings, undefined     *)
(***************************************************************************)
Bool(b) == [k |-> "boolean", v |-> IF b THEN "true" ELSE "false"]
Str(s) == [k |-> "string", v |-> s]
Undefined == [k |-> "undefined", v |-> ""]

Range(s) == { s[n] : n \in 1..Len(s) }

\* obj[id] of a JavaScript object: undefined when the key is absent
Get(obj, id) == IF id \in DOMAIN obj THEN obj[id] ELSE Undefined
\* obj[id] = val
Put(obj, id, val) == [x \in (DOMAIN obj) \cup {id} |-> IF x = id THEN val ELSE obj[x]]

(***************************************************************************)
(* The OptionSets of Init                                                  *)
(***************************************************************************)
RECURSIVE InjSeqs(_, _)
\* the sequences without repetition over S of length at most n
InjSeqs(S, n) ==
    IF n = 0 THEN { <<>> }
    ELSE LET prev == InjSeqs(S, n - 1)
         IN  prev \cup UNION { { Append(s, x) : x \in S \ Range(s) } :
                               s \in { p \in prev : Len(p) = n - 1 } }

\* the values a dependency on an option of type t accepts
AcceptSet(t, want) ==
    CASE t = "DROPDOWN" -> IF want = 1 THEN { Str("x") } ELSE { Str("y") }
      [] t = "TEXT"     -> IF want = 1 THEN { Str("s") } ELSE { Str("") }
      [] OTHER          -> IF want = 1 THEN { Bool(TRUE) } ELSE { Bool(FALSE) }

Slots(keys) == { <<id, on>> : id \in Range(keys), on \in (Range(keys) \cup {Dangling}) } \
               { <<id, id>> : id \in Range(keys) }

MkOptions(keys, type, pairs, want) ==
    [ keys |-> keys,
      type |-> type,
      deps |-> [ id \in Range(keys) |->
                 LET idx == { n \in 1..Len(pairs) : pairs[n][1] = id }
                     RECURSIVE Build(_)
                     Build(n) ==
                        IF n > Len(pairs) THEN <<>>
                        ELSE IF n \in idx
                             THEN << [ id |-> pairs[n][2],
                                       vals |-> AcceptSet(IF pairs[n][2] \in Range(keys)
                                                          THEN type[pairs[n][2]] ELSE "CHECKBOX",
                                                          want[n]) ] >> \o Build(n + 1)
                             ELSE Build(n + 1)
                 IN Build(1) ] ]

\* the OptionSets of Init: options \in OptionSets, spelled out for enumeration
IsOptionSet(o) ==
    \E p \in Profiles :
        \E type \in [Range(p.keys) -> p.types] :
            \E pairs \in InjSeqs(Slots(p.keys), MaxDepPairs) :
                \E want \in [1..Len(pairs) -> {1, 2}] :
                    o = MkOptions(p.keys, type, pairs, want)

(***************************************************************************)
(* Reading nodeInfo.options                                                *)
(***************************************************************************)
IsKey(id) == id \in Range(options.keys)
\* option.dependencies is absent (falsy) or a non-empty object
HasDeps(id) == Len(options.deps[id]) > 0
\* Object.keys(option.dependencies)
DepIds(id) == [ n \in 1..Len(options.deps[id]) |-> options.deps[id][n].id ]
\* nodeInfo.options[id]?.type
TypeOf(id) == IF IsKey(id) THEN options.type[id] ELSE "undefined"

(***************************************************************************)
(* Array.prototype.sort as the extension host's engine (V8) runs it on an  *)
(* array shorter than 64 elements: one run is counted from the front       *)
(* (reversed when it is descending) and the rest is inserted by binary     *)
(* insertion.  The comparators of lines 177 and 206 look at their first    *)
(* argument only: -1 when its type is T, 0 otherwise.                      *)
(***************************************************************************)
SortCompare(a, b, T) == IF TypeOf(a) = T THEN -1 ELSE 0

RECURSIVE RunEnd(_, _, _, _)
\* the last index of the run that starts at arr[1]; idx is the next index to look at
RunEnd(arr, idx, desc, T) ==
    IF idx > Len(arr) THEN idx - 1
    ELSE LET order == SortCompare(arr[idx], arr[idx - 1], T)
         IN  IF (desc /\ order >= 0) \/ (~desc /\ order < 0)
             THEN idx - 1
             ELSE RunEnd(arr, idx + 1, desc, T)

Reverse(s) == [ n \in 1..Len(s) |-> s[Len(s) + 1 - n] ]

RECURSIVE BinarySearch(_, _, _, _, _)
\* the insertion point (0-based) of pivot in arr[left..right-1] (0-based bounds)
BinarySearch(arr, pivot, left, right, T) ==
    IF left < right
    THEN LET mid == left + ((right - left) \div 2)
         IN  IF SortCompare(pivot, arr[mid + 1], T) < 0
             THEN BinarySearch(arr, pivot, left, mid, T)
             ELSE BinarySearch(arr, pivot, mid + 1, right, T)
    ELSE left

RECURSIVE BinaryInsertionSort(_, _, _)
\* inserts arr[start+1..] (start 0-based) one by one into the sorted front
BinaryInsertionSort(arr, start, T) ==
    IF start >= Len(arr) THEN arr
    ELSE LET pivot == arr[start + 1]
             left == BinarySearch(arr, pivot, 0, start, T)
             moved == SubSeq(arr, 1, left) \o <<pivot>> \o SubSeq(arr, left + 1, start)
                      \o SubSeq(arr, start + 2, Len(arr))
         IN  BinaryInsertionSort(moved, start + 1, T)

\* arr.sort((a, b) => (nodeInfo.options[a].type === T ? -1 : 0))
JsSort(arr, T) ==
    IF Len(arr) < 2 THEN arr
    ELSE LET desc == SortCompare(arr[2], arr[1], T) < 0
             run == RunEnd(arr, 3, desc, T)
             made == IF desc
                     THEN Reverse(SubSeq(arr, 1, run)) \o SubSeq(arr, run + 1, Len(arr))
                     ELSE arr
         IN  BinaryInsertionSort(made, run, T)

\* nodeInfo.options[a].type of line 177 throws a TypeError when a is no key; the
\* comparator is called with every element but the first as its first argument
SortThrows(arr) == \E n \in 2..Len(arr) : ~IsKey(arr[n])

(***************************************************************************)
(* Order resolution, lines 162-211                                         *)
(***************************************************************************)
RECURSIVE CollectLinked(_)
\* lines 167-173: every option with dependencies, followed by the ids it depends on
CollectLinked(n) ==
    IF n > Len(options.keys) THEN <<>>
    ELSE LET id == options.keys[n]
         IN  (IF HasDeps(id) THEN <<id>> \o DepIds(id) ELSE <<>>) \o CollectLinked(n + 1)

RECURSIVE visit(_, _), VisitEach(_, _, _)
\* lines 183-194; st = [visited, result, threw]
visit(st, id) ==
    IF st.threw \/ id \in st.visited THEN st
    ELSE IF ~IsKey(id)
         THEN [st EXCEPT !.visited = @ \cup {id}, !.threw = TRUE]
         ELSE LET st1 == [st EXCEPT !.visited = @ \cup {id}]
                  st2 == IF HasDeps(id) THEN VisitEach(st1, DepIds(id), 1) ELSE st1
              IN  IF st2.threw THEN st2 ELSE [st2 EXCEPT !.result = Append(@, id)]

\* ids.forEach(visit)
VisitEach(st, ids, n) ==
    IF n > Len(ids) THEN st ELSE VisitEach(visit(st, ids[n]), ids, n + 1)

RECURSIVE visitPre(_, _), VisitEachPre(_, _, _)
\* a visit that emits the id before the ids it depends on
visitPre(st, id) ==
    IF st.threw \/ id \in st.visited THEN st
    ELSE IF ~IsKey(id)
         THEN [st EXCEPT !.visited = @ \cup {id}, !.threw = TRUE]
         ELSE LET st1 == [st EXCEPT !.visited = @ \cup {id}, !.result = Append(@, id)]
              IN  IF HasDeps(id) THEN VisitEachPre(st1, DepIds(id), 1) ELSE st1

VisitEachPre(st, ids, n) ==
    IF n > Len(ids) THEN st ELSE VisitEachPre(visitPre(st, ids[n]), ids, n + 1)

topologicalSortPre(arr) ==
    VisitEachPre([visited |-> {}, result |-> <<>>, threw |-> FALSE], arr, 1)

RECURSIVE visitStrict(_, _, _), VisitEachStrict(_, _, _, _)
\* a visit that throws when it comes back to an id it is still working on
visitStrict(st, id, path) ==
    IF st.threw THEN st
    ELSE IF id \in path THEN [st EXCEPT !.threw = TRUE]
    ELSE IF id \in st.visited THEN st
    ELSE IF ~IsKey(id)
         THEN [st EXCEPT !.visited = @ \cup {id}, !.threw = TRUE]
         ELSE LET st1 == [st EXCEPT !.visited = @ \cup {id}]
                  st2 == IF HasDeps(id)
                         THEN VisitEachStrict(st1, DepIds(id), 1, path \cup {id})
                         ELSE st1
              IN  IF st2.threw THEN st2 ELSE [st2 EXCEPT !.result = Append(@, id)]

VisitEachStrict(st, ids, n, path) ==
    IF n > Len(ids) THEN st
    ELSE VisitEachStrict(visitStrict(st, ids[n], path), ids, n + 1, path)

topologicalSortStrict(arr) ==
    VisitEachStrict([visited |-> {}, result |-> <<>>, threw |-> FALSE], arr, 1, {})

\* lines 179-199
topologicalSort(arr) ==
    VisitEach([visited |-> {}, result |-> <<>>, threw |-> FALSE], arr, 1)

removeDupesNone(arr) == arr

\* line 211: .filter((v, i, arr) => arr.indexOf(v) === i)
removeDupes(arr) ==
    LET keep == { n \in 1..Len(arr) : \A m \in 1..(n - 1) : arr[m] # arr[n] }
        RECURSIVE Pick(_)
        Pick(n) == IF n > Len(arr) THEN <<>>
                   ELSE (IF n \in keep THEN <<arr[n]>> ELSE <<>>) \o Pick(n + 1)
    IN  Pick(1)

\* lines 175-177
SortedLinked == JsSort(CollectLinked(1), "DROPDOWN")

\* a resolver that reads a missing option as one without type and dependencies
ResolveThrowsNever == FALSE

\* the run throws before idOrder exists (line 177 or line 187)
ResolveThrows ==
    \/ SortThrows(CollectLinked(1))
    \/ topologicalSort(SortedLinked).threw

\* lines 201-211
ResolvedOrder ==
    removeDupes(topologicalSort(SortedLinked).result \o JsSort(options.keys, "CHECKBOX"))

(***************************************************************************)
(* The run                                                                 *)
(***************************************************************************)
NoPromise == [settled |-> FALSE, dismissed |-> FALSE, ids |-> {}]
\* last: the last user action or event; threw: its handler threw;
\* ev: the selection the last selection event reported;
\* shown/picked: the displayed list and the selection when the pick was last accepted;
\* unit: the unit (index into units) that action was made at;
\* dismissedAt: the unit the user dismissed, 0 for none;
\* ignored: the guard of lines 322-325 swallowed the last selection event;
\* repl: the replacements of the displayed list since the last user change made on
\* the list as displayed; raced: a user change has since overtaken an echo
\* (ev, ignored, repl and raced are cleared when the pick ends)
NoHist == [last |-> "none", threw |-> FALSE, ev |-> {}, shown |-> <<>>, picked |-> {},
           unit |-> 0, dismissedAt |-> 0, ignored |-> FALSE, repl |-> 0, raced |-> FALSE]

Init ==
    /\ IsOptionSet(options)
    /\ pc = "resolve"
    /\ idOrder = <<>>
    /\ i = 1
    /\ userOptionValues = << >>
    /\ checkboxCluster = <<>>
    /\ items = <<>>
    /\ selectedItems = {}
    /\ ignoreSelectionUpdate = FALSE
    /\ promise = NoPromise
    /\ echo = 0
    /\ units = <<>>
    /\ hist = NoHist
    /\ jobs = <<>>

(***************************************************************************)
(* The collector loop, lines 222-422                                       *)
(***************************************************************************)
\* a cluster that never absorbs the next checkbox
ClusterFromOne(n) == <<idOrder[n]>>

RECURSIVE ClusterFrom(_)
\* lines 237-261: the ids the while loop pushes into checkboxCluster, from idOrder[n] on
ClusterFrom(n) ==
    <<idOrder[n]>> \o
    (IF n + 1 <= Len(idOrder) /\ TypeOf(idOrder[n + 1]) = "CHECKBOX"
     THEN ClusterFrom(n + 1)
     ELSE <<>>)

\* a cluster whose members get no value before the pick is shown
PutAllNone(obj, ids, val) == obj

RECURSIVE PutAll(_, _, _)
\* obj[id] = val for every id of the sequence ids
PutAll(obj, ids, val) ==
    IF Len(ids) = 0 THEN obj ELSE PutAll(Put(obj, ids[1], val), Tail(ids), val)

\* lines 280-289: one dependency pair lets the option through
DepSatisfied(dep, vals, selected) ==
    ~ ( /\ Get(vals, dep.id) \notin dep.vals
        /\ Bool(dep.id \in selected) \notin dep.vals )

\* lines 274-292, with userOptionValues = vals and optionsPick.selectedItems = selected
getVisibleOptions(cluster, vals, selected) ==
    SelectSeq(cluster,
              LAMBDA id : \/ ~HasDeps(id)
                          \/ \A n \in 1..Len(options.deps[id]) :
                                DepSatisfied(options.deps[id][n], vals, selected))

\* line 329: visibleOptions.every((o, i) => o.id === optionsPick.items[i].id);
\* optionsPick.items[i] is undefined past the end of items, and .id of it throws
EveryMatches(visible, its) ==
    LET bad == { n \in 1..Len(visible) : n > Len(its) \/ visible[n] # its[n] }
        first == CHOOSE n \in bad : \A m \in bad : n <= m
    IN  IF bad = {} THEN "true"
        ELSE IF first > Len(its) THEN "throws" ELSE "false"

\* line 331, optionsPick.selectedItems = items, after line 330 has set the list to
\* its: the host keeps of an assigned selection the items that the list holds
SetSelectedItems(sel, its) == sel \cap Range(its)

\* the handler without the assignment of line 331: replacing the list resets the
\* selection (note of lines 303-305)
onDidChangeSelectionReset(ev) ==
    IF ignoreSelectionUpdate
    THEN [items |-> items, selectedItems |-> ev, ignore |-> FALSE,
          replaced |-> FALSE, threw |-> FALSE, ignored |-> TRUE]
    ELSE LET visibleOptions == getVisibleOptions(checkboxCluster, userOptionValues, ev)
             same == EveryMatches(visibleOptions, items)
         IN  IF same = "false"
             THEN [items |-> visibleOptions, selectedItems |-> {},
                   ignore |-> TRUE, replaced |-> TRUE, threw |-> FALSE, ignored |-> FALSE]
             ELSE [items |-> items, selectedItems |-> ev, ignore |-> FALSE,
                   replaced |-> FALSE, threw |-> (same = "throws"), ignored |-> FALSE]

\* the handler without the guard of lines 322-325
onDidChangeSelectionUnguarded(ev) ==
    LET visibleOptions == getVisibleOptions(checkboxCluster, userOptionValues, ev)
        same == EveryMatches(visibleOptions, items)
    IN  IF same = "false"
        THEN [items |-> visibleOptions,
              selectedItems |-> SetSelectedItems(ev, visibleOptions),
              ignore |-> TRUE, replaced |-> TRUE, threw |-> FALSE, ignored |-> FALSE]
        ELSE [items |-> items, selectedItems |-> ev, ignore |-> ignoreSelectionUpdate,
              replaced |-> FALSE, threw |-> (same = "throws"), ignored |-> FALSE]

\* lines 315-334 for the event items = ev; the host has set optionsPick.selectedItems
\* to ev before it fires.  The result is what the handler leaves behind: when line
\* 329 throws, the exception leaves the listener before line 330 and nothing is
\* assigned (threw); when the list is replaced, the host keeps of the selection
\* assigned in line 331 the items that the new list holds.  ignored tells that the
\* event was swallowed by the guard of lines 322-325.
onDidChangeSelection(ev) ==
    IF ignoreSelectionUpdate
    THEN [items |-> items, selectedItems |-> ev, ignore |-> FALSE,
          replaced |-> FALSE, threw |-> FALSE, ignored |-> TRUE]
    ELSE LET visibleOptions == getVisibleOptions(checkboxCluster, userOptionValues, ev)
             same == EveryMatches(visibleOptions, items)
         IN  IF same = "false"
             THEN [items |-> visibleOptions,
                   selectedItems |-> SetSelectedItems(ev, visibleOptions),
                   ignore |-> TRUE, replaced |-> TRUE, threw |-> FALSE, ignored |-> FALSE]
             ELSE [items |-> items, selectedItems |-> ev, ignore |-> FALSE,
                   replaced |-> FALSE, threw |-> (same = "throws"), ignored |-> FALSE]

\* a promise that the last call of resolve decides
resolveLastWins(p, dismissed, ids) ==
    [settled |-> TRUE, dismissed |-> dismissed, ids |-> ids]

\* resolve(...) of a promise: the first call settles it, later calls do nothing
resolve(p, dismissed, ids) ==
    IF p.settled THEN p ELSE [settled |-> TRUE, dismissed |-> dismissed, ids |-> ids]

\* a test that lets every value through
FalsyNever(v) == FALSE

\* !selectedValue of lines 356, 388, 409
Falsy(v) == v = Undefined \/ v = Str("") \/ v = Bool(FALSE)

\* the value the await of line 263 yields: undefined, or the array of selected items
PromiseValue(p) == IF p.dismissed THEN Undefined ELSE [k |-> "object", v |-> "array"]

\* a confirmation that writes nothing
confirmSelectedNone(vals, ids) == vals

\* lines 360-362: userOptionValues[checkboxInfo.id] = true for every selected item
confirmSelected(vals, ids) ==
    [ id \in (DOMAIN vals) \cup ids |-> IF id \in ids THEN Bool(TRUE) ELSE vals[id] ]

\* lines 159-220: resolve idOrder, or throw
Resolve ==
    /\ pc = "resolve"
    /\ IF ResolveThrows
       THEN /\ pc' = "error"
            /\ UNCHANGED idOrder
       ELSE /\ pc' = "loop"
            /\ idOrder' = ResolvedOrder
    /\ UNCHANGED <<options, i, userOptionValues, checkboxCluster, items, selectedItems,
                   ignoreSelectionUpdate, promise, echo, units, hist, jobs>>

\* lines 222-342, case CHECKBOX: build the cluster, write the defaults, show the pick
PresentCluster ==
    /\ pc = "loop"
    /\ i <= Len(idOrder)
    /\ TypeOf(idOrder[i]) = "CHECKBOX"
    /\ LET cluster == ClusterFrom(i)
           vals == PutAll(userOptionValues, cluster, Bool(FALSE))
       IN  /\ checkboxCluster' = cluster
           /\ userOptionValues' = vals
           /\ i' = i + Len(cluster)
           /\ items' = getVisibleOptions(cluster, vals, {})
           /\ units' = Append(units, [kind |-> "cluster", ids |-> cluster])
    /\ selectedItems' = {}
    /\ ignoreSelectionUpdate' = FALSE
    /\ promise' = NoPromise
    /\ echo' = 0
    /\ pc' = "cluster"
    /\ UNCHANGED <<options, idOrder, hist, jobs>>

\* lines 366-386: write the default, show the dropdown
PresentDropdown ==
    /\ pc = "loop"
    /\ i <= Len(idOrder)
    /\ TypeOf(idOrder[i]) = "DROPDOWN"
    /\ userOptionValues' = Put(userOptionValues, idOrder[i], Str(Choices[1]))
    /\ units' = Append(units, [kind |-> "dropdown", ids |-> <<idOrder[i]>>])
    /\ pc' = "dropdown"
    /\ UNCHANGED <<options, idOrder, i, checkboxCluster, items, selectedItems,
                   ignoreSelectionUpdate, promise, echo, hist, jobs>>

\* lines 398-407: write the default, show the input box
PresentText ==
    /\ pc = "loop"
    /\ i <= Len(idOrder)
    /\ TypeOf(idOrder[i]) = "TEXT"
    /\ userOptionValues' = Put(userOptionValues, idOrder[i], Str(""))
    /\ units' = Append(units, [kind |-> "text", ids |-> <<idOrder[i]>>])
    /\ pc' = "text"
    /\ UNCHANGED <<options, idOrder, i, checkboxCluster, items, selectedItems,
                   ignoreSelectionUpdate, promise, echo, hist, jobs>>

\* lines 419-420 and 515-521: any other type throws, and the error is rethrown
InvalidType ==
    /\ pc = "loop"
    /\ i <= Len(idOrder)
    /\ TypeOf(idOrder[i]) \notin {"CHECKBOX", "DROPDOWN", "TEXT"}
    /\ pc' = "error"
    /\ UNCHANGED <<options, idOrder, i, userOptionValues, checkboxCluster, items,
                   selectedItems, ignoreSelectionUpdate, promise, echo, units, hist, jobs>>

\* line 222 fails its test, lines 424-438: show the confirmation dialog
LoopExit ==
    /\ pc = "loop"
    /\ i > Len(idOrder)
    /\ pc' = "confirm"
    /\ UNCHANGED <<options, idOrder, i, userOptionValues, checkboxCluster, items,
                   selectedItems, ignoreSelectionUpdate, promise, echo, units, hist, jobs>>

(***************************************************************************)
(* The quick pick of a cluster, lines 263-343                              *)
(***************************************************************************)
\* the user ticks or unticks the displayed item x; the host fires onDidChangeSelection.
\* Here the user acts on the list as the handlers left it; RacingToggle is the
\* change made while a replacement is still under way (echo > 0).
Toggle(x) ==
    /\ pc = "cluster"
    /\ echo = 0
    /\ x \in Range(items)
    /\ LET ev == IF x \in selectedItems THEN selectedItems \ {x} ELSE selectedItems \cup {x}
           r == onDidChangeSelection(ev)
       IN  /\ items' = r.items
           /\ selectedItems' = r.selectedItems
           /\ ignoreSelectionUpdate' = r.ignore
           /\ echo' = IF r.replaced THEN echo + 1 ELSE echo
           /\ hist' = [hist EXCEPT !.last = "toggle", !.threw = r.threw, !.ev = ev,
                                   !.unit = Len(units), !.ignored = r.ignored,
                                   !.repl = IF r.replaced THEN 1 ELSE 0,
                                   !.raced = FALSE]
    /\ UNCHANGED <<options, pc, idOrder, i, userOptionValues, checkboxCluster, promise,
                   units, jobs>>

\* the host fires the onDidChangeSelection that the assignment of line 331 causes:
\* one event per assignment, as the note of lines 303-305 describes the host
EchoSelection ==
    /\ pc = "cluster"
    /\ echo > 0
    /\ LET r == onDidChangeSelection(selectedItems)
       IN  /\ items' = r.items
           /\ selectedItems' = r.selectedItems
           /\ ignoreSelectionUpdate' = r.ignore
           /\ echo' = IF r.replaced THEN echo ELSE echo - 1
           /\ hist' = [hist EXCEPT !.last = "echo", !.threw = r.threw, !.ev = selectedItems,
                                   !.unit = Len(units), !.ignored = r.ignored,
                                   !.repl = IF r.replaced THEN @ + 1 ELSE @]
    /\ UNCHANGED <<options, pc, idOrder, i, userOptionValues, checkboxCluster, promise,
                   units, jobs>>

\* the user changes the selection in the list the pick still displays while the
\* replacement of lines 330-332 is on its way to it, and the host delivers that
\* event ahead of the echo: the handler runs with the flag of line 332 set (lines
\* 322-325).  The host sets optionsPick.selectedItems to the event's items and sets
\* it back to the selection assigned in line 331 when it fires the echo; nothing
\* reads it in between, so it is left as assigned.  One such event per replacement.
RacingToggle ==
    /\ pc = "cluster"
    /\ echo > 0
    /\ ignoreSelectionUpdate
    /\ LET r == onDidChangeSelection(selectedItems)
       IN  /\ items' = r.items
           /\ ignoreSelectionUpdate' = r.ignore
           /\ hist' = [hist EXCEPT !.last = "race", !.threw = r.threw,
                                   !.unit = Len(units), !.ignored = r.ignored,
                                   !.raced = TRUE]
    /\ UNCHANGED <<options, pc, idOrder, i, userOptionValues, checkboxCluster,
                   selectedItems, promise, echo, units, jobs>>

\* lines 309-313: the user accepts; dispose() hides the pick, whose onDidHide
\* handler (lines 336-339) runs on the settled promise
Accept ==
    /\ pc = "cluster"
    /\ echo = 0
    /\ promise' = resolve(resolve(promise, FALSE, selectedItems), TRUE, {})
    /\ hist' = [hist EXCEPT !.last = "accept", !.threw = FALSE, !.unit = Len(units),
                            !.shown = items, !.picked = selectedItems,
                            !.ev = {}, !.ignored = FALSE, !.repl = 0, !.raced = FALSE]
    /\ pc' = "settled"
    /\ UNCHANGED <<options, idOrder, i, userOptionValues, checkboxCluster, items,
                   selectedItems, ignoreSelectionUpdate, echo, units, jobs>>

\* lines 336-339: the user dismisses the pick
Hide ==
    /\ pc = "cluster"
    /\ echo = 0
    /\ promise' = resolve(promise, TRUE, {})
    /\ hist' = [hist EXCEPT !.last = "hide", !.threw = FALSE, !.unit = Len(units),
                            !.dismissedAt = Len(units),
                            !.ev = {}, !.ignored = FALSE, !.repl = 0, !.raced = FALSE]
    /\ pc' = "settled"
    /\ UNCHANGED <<options, idOrder, i, userOptionValues, checkboxCluster, items,
                   selectedItems, ignoreSelectionUpdate, echo, units, jobs>>

\* lines 356-364: the await of line 263 returns
ClusterSettled ==
    /\ pc = "settled"
    /\ promise.settled
    /\ IF Falsy(PromiseValue(promise))
       THEN /\ pc' = "cancelled"
            /\ UNCHANGED userOptionValues
       ELSE /\ pc' = "loop"
            /\ userOptionValues' = confirmSelected(userOptionValues, promise.ids)
    /\ UNCHANGED <<options, idOrder, i, checkboxCluster, items, selectedItems,
                   ignoreSelectionUpdate, promise, echo, units, hist, jobs>>

(***************************************************************************)
(* Dropdown and text units, lines 388-417                                  *)
(***************************************************************************)
\* the value showQuickPick resolves to: the picked item, an object
PickedItem(c) == [k |-> "object", v |-> c]

\* lines 388-396 after the user picks choice c
PickChoice(c) ==
    /\ pc = "dropdown"
    /\ hist' = [hist EXCEPT !.last = "pick", !.threw = FALSE, !.unit = Len(units)]
    /\ IF Falsy(PickedItem(c))
       THEN /\ pc' = "cancelled"
            /\ UNCHANGED <<userOptionValues, i>>
       ELSE /\ userOptionValues' = Put(userOptionValues, idOrder[i], Str(c))
            /\ i' = i + 1
            /\ pc' = "loop"
    /\ UNCHANGED <<options, idOrder, checkboxCluster, items, selectedItems,
                   ignoreSelectionUpdate, promise, echo, units, jobs>>

\* lines 388-392 after the user dismisses the dropdown: selectedValue is undefined
\* (past the test of line 388, selectedValue.label of line 392 would throw)
DismissDropdown ==
    /\ pc = "dropdown"
    /\ hist' = [hist EXCEPT !.last = "dismiss", !.threw = FALSE, !.unit = Len(units),
                            !.dismissedAt = Len(units)]
    /\ IF Falsy(Undefined)
       THEN pc' = "cancelled"
       ELSE pc' = "error"
    /\ UNCHANGED <<userOptionValues, i>>
    /\ UNCHANGED <<options, idOrder, checkboxCluster, items, selectedItems,
                   ignoreSelectionUpdate, promise, echo, units, jobs>>

\* lines 409-417 after the user submits the input box with the text s
SubmitText(s) ==
    /\ pc = "text"
    /\ hist' = [hist EXCEPT !.last = "submit", !.threw = FALSE, !.ev = {s},
                            !.unit = Len(units)]
    /\ IF Falsy(Str(s))
       THEN /\ pc' = "cancelled"
            /\ UNCHANGED <<userOptionValues, i>>
       ELSE /\ userOptionValues' = Put(userOptionValues, idOrder[i], Str(s))
            /\ i' = i + 1
            /\ pc' = "loop"
    /\ UNCHANGED <<options, idOrder, checkboxCluster, items, selectedItems,
                   ignoreSelectionUpdate, promise, echo, units, jobs>>

\* lines 409-411 after the user aborts the input box: selectedValue is undefined
DismissText ==
    /\ pc = "text"
    /\ hist' = [hist EXCEPT !.last = "dismiss", !.threw = FALSE, !.unit = Len(units),
                            !.dismissedAt = Len(units)]
    /\ IF Falsy(Undefined)
       THEN /\ pc' = "cancelled"
            /\ UNCHANGED <<userOptionValues, i>>
       ELSE /\ userOptionValues' = Put(userOptionValues, idOrder[i], Undefined)
            /\ i' = i + 1
            /\ pc' = "loop"
    /\ UNCHANGED <<options, idOrder, checkboxCluster, items, selectedItems,
                   ignoreSelectionUpdate, promise, echo, units, jobs>>

(***************************************************************************)
(* Confirmation and submission, lines 424-448                              *)
(***************************************************************************)
\* lines 440-448: the user chooses "Obfuscate"; createNewJob gets userOptionValues
ConfirmObfuscate ==
    /\ pc = "confirm"
    /\ jobs' = Append(jobs, userOptionValues)
    /\ hist' = [hist EXCEPT !.last = "obfuscate", !.threw = FALSE]
    /\ pc' = "submitted"
    /\ UNCHANGED <<options, idOrder, i, userOptionValues, checkboxCluster, items,
                   selectedItems, ignoreSelectionUpdate, promise, echo, units>>

\* a dialog whose dismissal submits all the same
DismissConfirmSubmits ==
    /\ pc = "confirm"
    /\ jobs' = Append(jobs, userOptionValues)
    /\ hist' = [hist EXCEPT !.last = "decline", !.threw = FALSE]
    /\ pc' = "submitted"
    /\ UNCHANGED <<options, idOrder, i, userOptionValues, checkboxCluster, items,
                   selectedItems, ignoreSelectionUpdate, promise, echo, units>>

\* line 440: the user closes the dialog
DismissConfirm ==
    /\ pc = "confirm"
    /\ hist' = [hist EXCEPT !.last = "decline", !.threw = FALSE]
    /\ pc' = "declined"
    /\ UNCHANGED <<options, idOrder, i, userOptionValues, checkboxCluster, items,
                   selectedItems, ignoreSelectionUpdate, promise, echo, units, jobs>>

Next ==
    \/ Resolve
    \/ PresentCluster
    \/ PresentDropdown
    \/ PresentText
    \/ InvalidType
    \/ LoopExit
    \/ \E x \in Range(items) : Toggle(x)
    \/ EchoSelection
    \/ RacingToggle
    \/ Accept
    \/ Hide
    \/ ClusterSettled
    \/ \E c \in Range(Choices) : PickChoice(c)
    \/ DismissDropdown
    \/ \E s \in TextInputs : SubmitText(s)
    \/ DismissText
    \/ ConfirmObfuscate
    \/ DismissConfirm

Spec == Init /\ [][Next]_vars

(***************************************************************************)
(* Properties                                                              *)
(***************************************************************************)
\* order resolution has produced idOrder (no OptionSet is empty)
Resolved == idOrder # <<>>

\* option a declares a dependency on b
DependsOn(a, b) == \E n \in 1..Len(options.deps[a]) : options.deps[a][n].id = b

NoDangling == \A a \in Range(options.keys) : \A n \in 1..Len(options.deps[a]) :
                 IsKey(options.deps[a][n].id)

RECURSIVE Peel(_)
\* what is left of the set S of ids when the ids that depend on no id of S are
\* taken away, again and again
Peel(S) ==
    LET free == { a \in S : \A b \in S : ~DependsOn(a, b) }
    IN  IF free = {} THEN S ELSE Peel(S \ free)

\* no id depends on itself along declared dependencies (an id on a cycle has
\* dependencies, so the ids without any need not be looked at)
Acyclic == Peel({ a \in Range(options.keys) : HasDeps(a) }) = {}

Positions(id) == { n \in 1..Len(idOrder) : idOrder[n] = id }

\* C1: for an acyclic OptionSet without dangling references, every option stands in
\* idOrder, and strictly after every option it declares a dependency on
C1_TopologicalValidity ==
    (Resolved /\ NoDangling /\ Acyclic) =>
        \A a \in Range(options.keys) : \A b \in Range(options.keys) :
            DependsOn(a, b) =>
                /\ Positions(a) # {} /\ Positions(b) # {}
                /\ \A m \in Positions(a) : \A n \in Positions(b) : n < m

\* an acyclic OptionSet is resolved in which an option depends on one declared after it
C1_Witness ==
    /\ Resolved /\ NoDangling /\ Acyclic
    /\ \E m \in 1..Len(options.keys) : \E n \in 1..Len(options.keys) :
          m < n /\ DependsOn(options.keys[m], options.keys[n])

\* C2: for an OptionSet without dangling references, idOrder is a permutation of the
\* ids: as long as the key list, and holding every key
C2_Permutation ==
    (Resolved /\ NoDangling) =>
        /\ Len(idOrder) = Len(options.keys)
        /\ Range(idOrder) = Range(options.keys)
        /\ \A id \in Range(options.keys) : Cardinality(Positions(id)) = 1

\* an OptionSet with linked options (ids that occur twice before line 211) is resolved
C2_Witness ==
    /\ Resolved /\ NoDangling
    /\ \E a \in Range(options.keys) : HasDeps(a)

RECURSIVE Flatten(_)
\* the ids of a sequence of units, in order
Flatten(us) == IF Len(us) = 0 THEN <<>> ELSE us[1].ids \o Flatten(Tail(us))

\* the collector has walked the whole of idOrder
WalkDone == pc \in {"confirm", "submitted", "declined"}

\* C3: the units shown are a prefix of idOrder, the whole of it when the walk is done;
\* a cluster is a non-empty run of CHECKBOX ids, a DROPDOWN or TEXT id is a unit of
\* its own, and no two consecutive units are clusters
C3_Partition ==
    LET flat == Flatten(units)
    IN  /\ Len(flat) <= Len(idOrder)
        /\ flat = SubSeq(idOrder, 1, Len(flat))
        /\ WalkDone => flat = idOrder
        /\ \A u \in 1..Len(units) :
              /\ Len(units[u].ids) > 0
              /\ units[u].kind = "cluster" =>
                    \A n \in 1..Len(units[u].ids) : TypeOf(units[u].ids[n]) = "CHECKBOX"
              /\ units[u].kind # "cluster" =>
                    /\ Len(units[u].ids) = 1
                    /\ TypeOf(units[u].ids[1]) \in {"DROPDOWN", "TEXT"}
              /\ (\E n \in 1..Len(units[u].ids) : TypeOf(units[u].ids[n]) # "CHECKBOX")
                    => Len(units[u].ids) = 1
              /\ (u > 1 /\ units[u].kind = "cluster") => units[u - 1].kind # "cluster"

\* a walk is done that showed a cluster of several checkboxes and a singleton unit
C3_Witness ==
    /\ WalkDone
    /\ \E u \in 1..Len(units) : units[u].kind = "cluster" /\ Len(units[u].ids) > 1
    /\ \E u \in 1..Len(units) : units[u].kind # "cluster"

\* C4: once the user has dismissed a suspension point, the run is cancelled (or about
\* to be: the await of the dismissed pick is returning undefined), it has not thrown,
\* and createNewJob has not been called, so that no value has been handed to it
C4_CancellationSafety ==
    hist.dismissedAt > 0 =>
        /\ pc \in {"settled", "cancelled"}
        /\ pc = "settled" => (promise.settled /\ promise.dismissed)
        /\ jobs = <<>>

\* the user has dismissed a unit after the first, and the run is cancelled
C4_Witness == hist.dismissedAt > 1 /\ pc = "cancelled"

\* C5: after the handling of a user selection change the displayed list is the
\* visible subset recomputed for the selection that change reported
C5_DisplayedIsVisible ==
    (pc = "cluster" /\ hist.last = "toggle") =>
        items = getVisibleOptions(checkboxCluster, userOptionValues, hist.ev)

\* the OptionSet of the scenario: A and B checkboxes, B depending on A = true, C a dropdown
ScenarioOptions ==
    MkOptions(Keys3, [id \in Range(Keys3) |-> IF id = "C" THEN "DROPDOWN" ELSE "CHECKBOX"],
              << <<"B", "A">> >>, <<1>>)

\* C6: in the scenario, once A is toggled on and the change is handled, B is part of
\* the displayed list (so that it can be toggled on and confirmed true)
C6_ScenarioShowsB ==
    (options = ScenarioOptions /\ pc = "cluster" /\ echo = 0 /\ "A" \in selectedItems) =>
        "B" \in Range(items)

\* userOptionValues as they were when the cluster on display was accepted: the
\* members hold their default
AcceptVals ==
    [ id \in DOMAIN userOptionValues |->
        IF id \in Range(checkboxCluster) THEN Bool(FALSE) ELSE userOptionValues[id] ]

\* C7: a member whose dependencies the selection at accept time does not satisfy was
\* not displayed at accept time, and is confirmed false
C7_UnsatisfiedConfirmedFalse ==
    (hist.last = "accept" /\ pc \in {"settled", "loop"}) =>
        \A m \in Range(checkboxCluster) :
            m \notin Range(getVisibleOptions(checkboxCluster, AcceptVals, hist.picked)) =>
                /\ m \notin Range(hist.shown)
                /\ pc = "loop" => Get(userOptionValues, m) = Bool(FALSE)

\* C8: after the user submitted an input box with a text, the run is not cancelled
\* and the text is the value of the option of that unit
C8_SubmittedTextConfirmed ==
    hist.last = "submit" =>
        /\ pc # "cancelled"
        /\ \A s \in hist.ev : Get(userOptionValues, units[hist.unit].ids[1]) = Str(s)

\* C9: after a cluster was accepted, every member is confirmed true if it was in the
\* selection at the moment of accept, and false if it was not
C9_AcceptConfirmsSelection ==
    (hist.last = "accept" /\ pc # "settled") =>
        \A m \in Range(units[hist.unit].ids) :
            Get(userOptionValues, m) = Bool(m \in hist.picked)

\* a cluster was accepted with some members selected and some not
C9_Witness ==
    /\ hist.last = "accept" /\ pc = "loop"
    /\ \E m \in Range(units[hist.unit].ids) : m \in hist.picked
    /\ \E m \in Range(units[hist.unit].ids) : m \notin hist.picked

\* the ids of the units before the one on display
EarlierIds == Range(Flatten(SubSeq(units, 1, Len(units) - 1)))

\* C10: a member all of whose dependencies reference ids confirmed in earlier units
\* is displayed exactly if every acceptable value set holds the confirmed value
C10_ConfirmedDecides ==
    pc = "cluster" =>
        \A m \in Range(checkboxCluster) :
            (HasDeps(m) /\ \A n \in 1..Len(options.deps[m]) :
                              options.deps[m][n].id \in EarlierIds) =>
                ( m \in Range(items) <=>
                  \A n \in 1..Len(options.deps[m]) :
                      Get(userOptionValues, options.deps[m][n].id) \in options.deps[m][n].vals )

\* the kind of value the collector stores for an option of type t
KindOf(t) == IF t = "CHECKBOX" THEN "boolean" ELSE "string"

\* the map m has one entry per id of idOrder and no other key, a boolean for a
\* CHECKBOX id and a string for a DROPDOWN or TEXT id
WellTyped(m) ==
    /\ DOMAIN m = Range(idOrder)
    /\ \A id \in DOMAIN m : m[id].k = KindOf(TypeOf(id))

\* C11: when the collector has walked the whole of idOrder, userOptionValues has
\* exactly one entry per id of idOrder, a boolean for each CHECKBOX id and a string
\* for each DROPDOWN or TEXT id; the map handed to createNewJob is that map
C11_CompleteAndTyped ==
    /\ WalkDone => WellTyped(userOptionValues)
    /\ \A n \in 1..Len(jobs) : WellTyped(jobs[n]) /\ jobs[n] = userOptionValues

\* a job is submitted for an OptionSet with a checkbox left unselected, a checkbox
\* selected and an option that holds a string
C11_Witness ==
    /\ pc = "submitted" /\ Len(jobs) = 1
    /\ \E id \in DOMAIN jobs[1] : jobs[1][id] = Bool(FALSE)
    /\ \E id \in DOMAIN jobs[1] : jobs[1][id] = Bool(TRUE)
    /\ \E id \in DOMAIN jobs[1] : jobs[1][id].k = "string"

\* some option reports a type the switch of lines 235-421 has no case for
HasInvalidType ==
    \E id \in Range(options.keys) : TypeOf(id) \notin {"CHECKBOX", "DROPDOWN", "TEXT"}

\* C12: with an option of a type outside CHECKBOX, DROPDOWN and TEXT the run fails
\* before any presentation unit is shown, and no job is submitted: no unit is ever
\* on record, and once the loop has been entered the run has ended in the error
C12_InvalidTypeFailsFirst ==
    HasInvalidType =>
        /\ units = <<>>
        /\ jobs = <<>>
        /\ pc \in {"resolve", "loop", "error"}

\* C13: with a dependency on an id that is no key of the OptionSet, the run ends in
\* an error at order resolution: no idOrder is produced, no unit is shown and no job
\* is submitted
C13_DanglingFails ==
    ~NoDangling =>
        /\ pc \in {"resolve", "error"}
        /\ idOrder = <<>>
        /\ units = <<>>
        /\ jobs = <<>>

\* the run has failed on an OptionSet with a dangling reference
C13_Witness == ~NoDangling /\ pc = "error"

\* C14: when the handling of a selection change has replaced the displayed list, the
\* selection is the selection that change reported restricted to the new list: a
\* member of the new list is selected exactly if the change reported it selected,
\* and nothing outside the new list is selected
C14_SelectionRestricted ==
    (pc = "cluster" /\ hist.last = "toggle" /\ hist.repl = 1) =>
        /\ selectedItems \subseteq Range(items)
        /\ \A m \in Range(items) : m \in selectedItems <=> m \in hist.ev

\* a replacement that kept a selected item and dropped another from the list
C14_Witness ==
    /\ pc = "cluster" /\ hist.last = "toggle" /\ hist.repl = 1
    /\ selectedItems # {}
    /\ hist.ev \ Range(items) # {}

C16_ResolutionTerminates ==
    /\ (pc # "resolve" /\ ~Resolved) => ~NoDangling
    /\ (pc = "loop" /\ units = <<>> /\ NoDangling) =>
          LET r == topologicalSort(SortedLinked)
          IN  /\ ~r.threw
              /\ \A m \in 1..Len(r.result) : \A n \in 1..Len(r.result) :
                    r.result[m] = r.result[n] => m = n
              /\ Range(r.result) = Range(CollectLinked(1))
              /\ \A id \in Range(options.keys) : Cardinality(Positions(id)) = 1
              /\ Range(idOrder) = Range(options.keys)

\* an OptionSet with a dependency cycle has been resolved
C16_Witness == NoDangling /\ ~Acyclic /\ pc = "loop" /\ units = <<>>

\* the visible subset of the cluster on display for the selection as it stands
VisibleNow == Range(getVisibleOptions(checkboxCluster, userOptionValues, selectedItems))

\* C17: while a cluster is displayed, a member whose dependency on a sibling accepts
\* only false is not in the visible subset while that sibling is selected, and a
\* member with a dependency on an id that has no value yet and is not selected is
\* not in the visible subset
C17_DefaultNotConfirmed ==
    (pc = "cluster" /\ echo = 0) =>
        \A b \in Range(checkboxCluster) : \A n \in 1..Len(options.deps[b]) :
            LET dep == options.deps[b][n]
            IN  /\ ( /\ dep.id \in Range(checkboxCluster)
                     /\ dep.vals = {Bool(FALSE)}
                     /\ dep.id \in selectedItems ) => b \notin VisibleNow
                /\ ( /\ dep.id \notin DOMAIN userOptionValues
                     /\ dep.id \notin selectedItems ) => b \notin VisibleNow

\* C18: createNewJob is called at most once; a call is on record only when the
\* units confirmed are the whole of idOrder and the last thing the user did was to
\* choose "Obfuscate"; after the dialog is dismissed no call is on record
C18_SubmitOnceAfterConfirm ==
    /\ Len(jobs) <= 1
    /\ jobs # <<>> =>
          /\ pc = "submitted"
          /\ hist.last = "obfuscate"
          /\ Flatten(units) = idOrder
          /\ hist.dismissedAt = 0
    /\ hist.last = "decline" => (pc = "declined" /\ jobs = <<>>)
    /\ pc \in {"cancelled", "error", "declined"} => jobs = <<>>

\* a job has been submitted after more than one unit was confirmed
C18_Witness == jobs # <<>> /\ Len(units) > 1

\* C19: the first of accept and hide to be handled decides the outcome of a cluster
\* prompt for good.  After accept, with the hide that dispose() causes handled too,
\* the promise holds the selection as it was at accept, empty or not, and the run is
\* not cancelled; after a hide handled first the promise holds the dismissal, the
\* run is cancelled, and the resolve call of an accept handler would change nothing
C19_FirstHandlerDecides ==
    /\ (hist.last = "accept" /\ pc = "settled") =>
          promise = [settled |-> TRUE, dismissed |-> FALSE, ids |-> hist.picked]
    /\ hist.last = "accept" => pc # "cancelled"
    /\ hist.last = "hide" =>
          /\ pc \in {"settled", "cancelled"}
          /\ promise.settled /\ promise.dismissed
          /\ resolve(promise, FALSE, selectedItems) = promise

\* accept has been handled with a non-empty selection, and the hide after it
C19_Witness == hist.last = "accept" /\ pc = "settled" /\ hist.picked # {}

\* C20: the guard never swallows a selection change made by the user: when the
\* handler has run for a user change, it did not return at lines 322-325
C20_GuardSparesUser ==
    hist.last \in {"toggle", "race"} => ~hist.ignored

====
